---- MODULE Spec2Model ----
(***************************************************************************)
(* Model of zvariant's signature registry (basic.rs) and of the            *)
(* signature-checked dictionary Dict (dict.rs).                            *)
(*                                                                         *)
(* A native value is a pair (type name, payload); a dynamic Value is a     *)
(* record [kind, v].  Strings are TLA+ strings, a char is its code point,  *)
(* integers and floats are integers.  An Option is <<>> (None) or <<x>>    *)
(* (Some(x)); a Result is <<"Ok", ...>> or <<"Err", "IncorrectType">>.     *)
(***************************************************************************)
EXTENDS Integers, Sequences, FiniteSets, TLC

VARIABLES entries, key_signature, value_signature, live, created, last

vars == <<entries, key_signature, value_signature, live, created, last>>

\* Largest number of entries a modelled dictionary grows to.
MaxLen == 3

(***************************************************************************)
(* basic.rs: the registry                                                  *)
(***************************************************************************)

BasicTypes ==
    {"u8", "i8", "bool", "i16", "u16", "i32", "u32", "i64", "u64",
     "f32", "f64", "&str", "String", "char"}

\* Code point -> one-character string, for the characters the model uses.
Chr ==
    [c \in {97, 98, 100, 105, 110, 113, 115, 116, 117, 120, 121} |->
        CASE c = 97 -> "a" [] c = 98 -> "b" [] c = 100 -> "d"
          [] c = 105 -> "i" [] c = 110 -> "n" [] c = 113 -> "q"
          [] c = 115 -> "s" [] c = 116 -> "t" [] c = 117 -> "u"
          [] c = 120 -> "x" [] c = 121 -> "y"]

Ord(s) == CHOOSE c \in DOMAIN Chr : Chr[c] = s

RECURSIVE SIGNATURE_CHAR(_)
SIGNATURE_CHAR(T) ==
    CASE T = "u8" -> 121
      [] T = "i8" -> SIGNATURE_CHAR("i16")
      [] T = "bool" -> 98
      [] T = "i16" -> 110
      [] T = "u16" -> 113
      [] T = "i32" -> 105
      [] T = "u32" -> 117
      [] T = "i64" -> 120
      [] T = "u64" -> 116
      [] T = "f32" -> SIGNATURE_CHAR("f64")
      [] T = "f64" -> 100
      [] T = "&str" -> 115
      [] T = "String" -> 115
      [] T = "char" -> SIGNATURE_CHAR("&str")

RECURSIVE SIGNATURE_STR(_)
SIGNATURE_STR(T) ==
    CASE T = "u8" -> "y"
      [] T = "i8" -> SIGNATURE_STR("i16")
      [] T = "bool" -> "b"
      [] T = "i16" -> "n"
      [] T = "u16" -> "q"
      [] T = "i32" -> "i"
      [] T = "u32" -> "u"
      [] T = "i64" -> "x"
      [] T = "u64" -> "t"
      [] T = "f32" -> SIGNATURE_STR("f64")
      [] T = "f64" -> "d"
      [] T = "&str" -> "s"
      [] T = "String" -> "s"
      [] T = "char" -> SIGNATURE_STR("&str")

\* Variant: i8 keeps its natural alignment instead of taking i16's.
ALIGNMENT_i8_natural(T) ==
    CASE T \in {"u8", "i8"} -> 1
      [] T \in {"i16", "u16"} -> 2
      [] T \in {"bool", "i32", "u32", "&str", "String", "char"} -> 4
      [] OTHER -> 8

RECURSIVE ALIGNMENT(_)
ALIGNMENT(T) ==
    CASE T = "u8" -> 1
      [] T = "i8" -> ALIGNMENT("i16")
      [] T = "bool" -> 4
      [] T = "i16" -> 2
      [] T = "u16" -> 2
      [] T = "i32" -> 4
      [] T = "u32" -> 4
      [] T = "i64" -> 8
      [] T = "u64" -> 8
      [] T = "f32" -> ALIGNMENT("f64")
      [] T = "f64" -> 8
      [] T = "&str" -> 4
      [] T = "String" -> 4
      [] T = "char" -> ALIGNMENT("&str")

\* impl_type!: Type::signature() is the type's SIGNATURE_STR, unchecked.
Type_signature(T) == SIGNATURE_STR(T)

(***************************************************************************)
(* The dynamic Value type (external to dict.rs and basic.rs)               *)
(***************************************************************************)

Err == <<"Err", "IncorrectType">>

\* The Value variant a native type is lifted into.
KindOf(T) ==
    CASE T = "u8" -> "U8"
      [] T = "i8" -> "I16"
      [] T = "bool" -> "Bool"
      [] T = "i16" -> "I16"
      [] T = "u16" -> "U16"
      [] T = "i32" -> "I32"
      [] T = "u32" -> "U32"
      [] T = "i64" -> "I64"
      [] T = "u64" -> "U64"
      [] T = "f32" -> "F64"
      [] T = "f64" -> "F64"
      [] T = "&str" -> "Str"
      [] T = "String" -> "Str"
      [] T = "char" -> "Str"

\* Value::value_signature(): the signature of the variant.
Value_value_signature(val) ==
    CASE val.kind = "U8" -> "y"
      [] val.kind = "Bool" -> "b"
      [] val.kind = "I16" -> "n"
      [] val.kind = "U16" -> "q"
      [] val.kind = "I32" -> "i"
      [] val.kind = "U32" -> "u"
      [] val.kind = "I64" -> "x"
      [] val.kind = "U64" -> "t"
      [] val.kind = "F64" -> "d"
      [] val.kind = "Str" -> "s"
      [] val.kind = "Value" -> "v"

\* Value::new(native): wrap a native value of type T; a char becomes the
\* one-character string, i8 widens to i16 and f32 to f64.
Value_new(T, x) ==
    [kind |-> KindOf(T), v |-> IF T = "char" THEN Chr[x] ELSE x]

\* The value a variant-typed Value (kind "Value", signature "v") holds, and
\* any other Value itself.
Unwrapped(val) == IF val.kind = "Value" THEN val.v ELSE val

\* Value::downcast_ref::<T>(): looks through a variant-typed Value; a
\* borrowed view exists only for the type the variant stores (the aliased
\* i8, f32 and char and the owned String have none).
downcast_ref(T, val) ==
    IF T \notin {"i8", "f32", "char", "String"}
         /\ Unwrapped(val).kind = KindOf(T)
    THEN <<Unwrapped(val).v>>
    ELSE <<>>

\* T::try_from(Value): consuming extraction; the aliased types narrow back.
Value_try_into(T, val) ==
    IF val.kind # KindOf(T) THEN Err
    ELSE CASE T = "i8" ->
                IF val.v >= -128 /\ val.v <= 127 THEN <<"Ok", val.v>> ELSE Err
           [] T = "char" ->
                IF Len(val.v) = 1 THEN <<"Ok", Ord(val.v)>> ELSE Err
           [] OTHER -> <<"Ok", val.v>>

(***************************************************************************)
(* Inputs                                                                  *)
(***************************************************************************)

\* The values of each native type the model draws inputs from.
NativeVals(T) ==
    CASE T \in {"&str", "String"} -> {"a", "b"}
      [] T = "char" -> {97, 98}
      [] T = "u32" -> {1, 2, 3}
      [] T = "i16" -> {1, 200}
      [] OTHER -> {1}

\* The payloads of each Value variant the model draws inputs from.
KindVals(k) ==
    CASE k = "Str" -> {"a", "b"}
      [] k = "U32" -> {1, 2, 3}
      [] k = "I16" -> {1, 200}
      [] k = "Value" -> {[kind |-> "U32", v |-> 1], [kind |-> "I16", v |-> 1]}
      [] OTHER -> {1}

\* The payloads append draws keys from.
KeyKindVals(k) == IF k = "I16" THEN {1} ELSE KindVals(k)

NewKeySignatures == {"s", "i", "n"}
NewValueSignatures == {"u", "n"}
AppendKeyKinds == {"Str", "I16"}
AppendValueKinds == {"U32", "I16"}
AddKeyTypes == {"&str", "char", "i32"}
AddValueTypes == {"u32", "i8"}
GetKeyTypes == {"&str", "u32", "i32"}
GetValueTypes == {"u32", "i16"}
FromKeyTypes == {"String", "char", "i8"}
FromValueTypes == {"u32", "i8"}
TryFromKeyTypes == {"String", "char", "i8"}
TryFromValueTypes == {"u32", "i8", "i16"}

\* All native maps HashMap<K, V> over the input values, as functions.
HashMaps(K, V) ==
    UNION {[D -> NativeVals(V)] : D \in SUBSET NativeVals(K)}

\* The orders in which a HashMap may yield its keys.
IterOrders(m) ==
    {o \in [1..Cardinality(DOMAIN m) -> DOMAIN m] :
        \A i, j \in DOMAIN o : i # j => o[i] # o[j]}

(***************************************************************************)
(* dict.rs                                                                 *)
(***************************************************************************)

DictEntry(key, value) == [key |-> key, value |-> value]

\* Variant: the value signature is written before the key signature.
Dict_signature_swapped(ks, vs) == "a{" \o vs \o ks \o "}"

\* Dict::signature(): format!("a{{{}{}}}", key_signature, value_signature)
Dict_signature(ks, vs) == "a{" \o ks \o vs \o "}"

\* Variant: append rejects only when both signatures mismatch.
append_rejects_both(ks, vs, key, value) ==
    Value_value_signature(key) # ks /\ Value_value_signature(value) # vs

\* The check of Dict::append.
append_rejects(ks, vs, key, value) ==
    Value_value_signature(key) # ks \/ Value_value_signature(value) # vs

\* Variant: add checks the key type only.
add_rejects_key_only(ks, vs, K, V) == Type_signature(K) # ks

\* Variant: add checks the value type only.
add_rejects_value_only(ks, vs, K, V) == Type_signature(V) # vs

\* The check of Dict::add.
add_rejects(ks, vs, K, V) ==
    Type_signature(K) # ks \/ Type_signature(V) # vs

\* Variant: the scan returns at the first key that differs from the request.
RECURSIVE get_scan_ne(_, _, _, _, _)
get_scan_ne(es, i, K, V, key) ==
    IF i > Len(es) THEN <<"Ok", "None">>
    ELSE LET entry_key == downcast_ref(K, es[i].key)
         IN IF entry_key = <<>> THEN Err
            ELSE IF entry_key[1] # key
                 THEN LET v == downcast_ref(V, es[i].value)
                      IN IF v = <<>> THEN Err ELSE <<"Ok", "Some", v[1]>>
                 ELSE get_scan_ne(es, i + 1, K, V, key)

\* Variant: the last matching entry wins.
RECURSIVE get_scan_last(_, _, _, _, _)
get_scan_last(es, i, K, V, key) ==
    IF i > Len(es) THEN <<"Ok", "None">>
    ELSE LET entry_key == downcast_ref(K, es[i].key)
             rest == get_scan_last(es, i + 1, K, V, key)
         IN IF entry_key = <<>> THEN Err
            ELSE IF rest # <<"Ok", "None">> THEN rest
            ELSE IF entry_key[1] = key
                 THEN LET v == downcast_ref(V, es[i].value)
                      IN IF v = <<>> THEN Err ELSE <<"Ok", "Some", v[1]>>
                 ELSE rest

\* Variant: a stored key that does not downcast is skipped.
RECURSIVE get_scan_skip(_, _, _, _, _)
get_scan_skip(es, i, K, V, key) ==
    IF i > Len(es) THEN <<"Ok", "None">>
    ELSE LET entry_key == downcast_ref(K, es[i].key)
         IN IF entry_key = <<>> THEN get_scan_skip(es, i + 1, K, V, key)
            ELSE IF entry_key[1] = key
                 THEN LET v == downcast_ref(V, es[i].value)
                      IN IF v = <<>> THEN Err ELSE <<"Ok", "Some", v[1]>>
                 ELSE get_scan_skip(es, i + 1, K, V, key)

\* The scan of Dict::get over es from index i on.
RECURSIVE get_scan(_, _, _, _, _)
get_scan(es, i, K, V, key) ==
    IF i > Len(es) THEN <<"Ok", "None">>
    ELSE LET entry_key == downcast_ref(K, es[i].key)
         IN IF entry_key = <<>> THEN Err
            ELSE IF entry_key[1] = key
                 THEN LET v == downcast_ref(V, es[i].value)
                      IN IF v = <<>> THEN Err ELSE <<"Ok", "Some", v[1]>>
                 ELSE get_scan(es, i + 1, K, V, key)

Dict_get(es, K, V, key) == get_scan(es, 1, K, V, key)

\* HashMap::insert
map_insert(map, k, v) ==
    [x \in DOMAIN map \cup {k} |-> IF x = k THEN v ELSE map[x]]

\* Variant: the loop stops one entry early.
RECURSIVE try_from_loop_short(_, _, _, _, _)
try_from_loop_short(es, i, map, K, V) ==
    IF i >= Len(es) THEN <<"Ok", map>>
    ELSE LET k == Value_try_into(K, es[i].key)
         IN IF k[1] = "Err" THEN <<"Err", "IncorrectType", i, "key">>
            ELSE LET v == Value_try_into(V, es[i].value)
                 IN IF v[1] = "Err"
                    THEN <<"Err", "IncorrectType", i, "value">>
                    ELSE try_from_loop_short(es, i + 1,
                                             map_insert(map, k[2], v[2]),
                                             K, V)

\* Variant: an entry that cannot be extracted is left out of the map.
RECURSIVE try_from_loop_skip(_, _, _, _, _)
try_from_loop_skip(es, i, map, K, V) ==
    IF i > Len(es) THEN <<"Ok", map>>
    ELSE LET k == Value_try_into(K, es[i].key)
             v == Value_try_into(V, es[i].value)
         IN IF k[1] = "Err" \/ v[1] = "Err"
            THEN try_from_loop_skip(es, i + 1, map, K, V)
            ELSE try_from_loop_skip(es, i + 1,
                                    map_insert(map, k[2], v[2]), K, V)

\* The loop of TryFrom<Dict> for HashMap<K, V, H> from index i on; the
\* result carries the index and the side of the failed extraction.
RECURSIVE try_from_loop(_, _, _, _, _)
try_from_loop(es, i, map, K, V) ==
    IF i > Len(es) THEN <<"Ok", map>>
    ELSE LET k == Value_try_into(K, es[i].key)
         IN IF k[1] = "Err" THEN <<"Err", "IncorrectType", i, "key">>
            ELSE LET v == Value_try_into(V, es[i].value)
                 IN IF v[1] = "Err"
                    THEN <<"Err", "IncorrectType", i, "value">>
                    ELSE try_from_loop(es, i + 1,
                                       map_insert(map, k[2], v[2]), K, V)

HashMap_try_from(es, K, V) == try_from_loop(es, 1, <<>>, K, V)

\* The entries From<HashMap<K, V>> collects, in the map's iteration order.
from_entries(K, V, m, order) ==
    [i \in 1..Cardinality(DOMAIN m) |->
        DictEntry(Value_new(K, order[i]), Value_new(V, m[order[i]]))]

(***************************************************************************)
(* Construction                                                            *)
(***************************************************************************)

\* Dict::new(key_signature, value_signature)
new(ks, vs) ==
    /\ entries = <<>>
    /\ key_signature = ks
    /\ value_signature = vs
    /\ live = TRUE
    /\ created = [ks |-> ks, vs |-> vs]
    /\ last = [op |-> "new", ks |-> ks, vs |-> vs]

\* Dict::from(HashMap<K, V>)
from(K, V, m, order) ==
    /\ entries = from_entries(K, V, m, order)
    /\ key_signature = Type_signature(K)
    /\ value_signature = Type_signature(V)
    /\ live = TRUE
    /\ created = [ks |-> Type_signature(K), vs |-> Type_signature(V)]
    /\ last = [op |-> "from", K |-> K, V |-> V, m |-> m]

Init ==
    \/ \E ks \in NewKeySignatures, vs \in NewValueSignatures : new(ks, vs)
    \/ \E K \in FromKeyTypes, V \in FromValueTypes :
         \E m \in HashMaps(K, V) :
           /\ Cardinality(DOMAIN m) <= MaxLen
           /\ \E order \in IterOrders(m) : from(K, V, m, order)

(***************************************************************************)
(* Operations                                                              *)
(***************************************************************************)

\* Dict::append(key, value)
append(key, value) ==
    /\ live
    /\ Len(entries) < MaxLen
    /\ IF append_rejects(key_signature, value_signature, key, value)
       THEN /\ last' = [op |-> "append", key |-> key, value |-> value,
                        res |-> Err]
            /\ UNCHANGED entries
       ELSE /\ entries' = Append(entries, DictEntry(key, value))
            /\ last' = [op |-> "append", key |-> key, value |-> value,
                        res |-> <<"Ok">>]
    /\ UNCHANGED <<key_signature, value_signature, live, created>>

\* Dict::add::<K, V>(key, value)
add(K, V, key, value) ==
    /\ live
    /\ Len(entries) < MaxLen
    /\ IF add_rejects(key_signature, value_signature, K, V)
       THEN /\ last' = [op |-> "add", K |-> K, V |-> V, key |-> key,
                        value |-> value, res |-> Err]
            /\ UNCHANGED entries
       ELSE /\ entries' = Append(entries,
                                 DictEntry(Value_new(K, key),
                                           Value_new(V, value)))
            /\ last' = [op |-> "add", K |-> K, V |-> V, key |-> key,
                        value |-> value, res |-> <<"Ok">>]
    /\ UNCHANGED <<key_signature, value_signature, live, created>>

\* Dict::get::<K, V>(&key)
get(K, V, key) ==
    /\ live
    /\ last' = [op |-> "get", K |-> K, V |-> V, key |-> key,
                res |-> Dict_get(entries, K, V, key)]
    /\ UNCHANGED <<entries, key_signature, value_signature, live, created>>

\* Dict::signature()
signature ==
    /\ live
    /\ last' = [op |-> "signature",
                res |-> Dict_signature(key_signature, value_signature)]
    /\ UNCHANGED <<entries, key_signature, value_signature, live, created>>

\* HashMap::<K, V, H>::try_from(dict): consumes the dictionary.
try_from(K, V) ==
    /\ live
    /\ live' = FALSE
    /\ last' = [op |-> "try_from", K |-> K, V |-> V,
                src |-> IF last.op = "from" THEN <<last>> ELSE <<>>,
                res |-> HashMap_try_from(entries, K, V)]
    /\ UNCHANGED <<entries, key_signature, value_signature, created>>

\* <T as Basic>::{SIGNATURE_CHAR, SIGNATURE_STR, ALIGNMENT}, T::signature()
basic(T) ==
    /\ last' = [op |-> "basic", T |-> T, ch |-> SIGNATURE_CHAR(T),
                str |-> SIGNATURE_STR(T), align |-> ALIGNMENT(T),
                sig |-> Type_signature(T)]
    /\ UNCHANGED <<entries, key_signature, value_signature, live, created>>

Next ==
    \/ \E kk \in AppendKeyKinds, vk \in AppendValueKinds :
         \E kv \in KeyKindVals(kk), vv \in KindVals(vk) :
           append([kind |-> kk, v |-> kv], [kind |-> vk, v |-> vv])
    \/ \E K \in AddKeyTypes, V \in AddValueTypes :
         \E key \in NativeVals(K), value \in NativeVals(V) :
           add(K, V, key, value)
    \/ \E K \in GetKeyTypes, V \in GetValueTypes :
         \E key \in NativeVals(K) : get(K, V, key)
    \/ signature
    \/ \E K \in TryFromKeyTypes, V \in TryFromValueTypes : try_from(K, V)
    \/ \E T \in BasicTypes : basic(T)

Spec == Init /\ [][Next]_vars

(***************************************************************************)
(* Dictionaries of variant-typed keys: Dict::new accepts any signature,    *)
(* and every variant-typed Value reports "v" whatever it holds.            *)
(***************************************************************************)

InitVariant == \E vs \in NewValueSignatures : new("v", vs)

NextVariant ==
    \/ \E vk \in AppendValueKinds :
         \E kv \in KindVals("Value"), vv \in KindVals(vk) :
           append([kind |-> "Value", v |-> kv], [kind |-> vk, v |-> vv])
    \/ \E K \in AddKeyTypes, V \in AddValueTypes :
         \E key \in NativeVals(K), value \in NativeVals(V) :
           add(K, V, key, value)
    \/ \E K \in GetKeyTypes, V \in GetValueTypes :
         \E key \in NativeVals(K) : get(K, V, key)
    \/ signature
    \/ \E K \in TryFromKeyTypes, V \in TryFromValueTypes : try_from(K, V)

SpecVariant == InitVariant /\ [][NextVariant]_vars

(***************************************************************************)
(* Properties                                                              *)
(***************************************************************************)

\* The native type whose borrowed view a Value variant gives.
RefTypeOf(kind) ==
    CASE kind = "U8" -> "u8"
      [] kind = "Bool" -> "bool"
      [] kind = "I16" -> "i16"
      [] kind = "U16" -> "u16"
      [] kind = "I32" -> "i32"
      [] kind = "U32" -> "u32"
      [] kind = "I64" -> "i64"
      [] kind = "U64" -> "u64"
      [] kind = "F64" -> "f64"
      [] kind = "Str" -> "&str"

Min(S) == CHOOSE x \in S : \A y \in S : x <= y
Max(S) == CHOOSE x \in S : \A y \in S : x >= y

\* C1: every stored entry's key reports the dictionary's key_signature and
\* every stored entry's value reports the dictionary's value_signature,
\* however the entry was inserted (append, add or From<HashMap>).
C1_EntriesMatchSignatures ==
    \A i \in 1..Len(entries) :
        /\ Value_value_signature(entries[i].key) = key_signature
        /\ Value_value_signature(entries[i].value) = value_signature

\* A dictionary of string keys and 16-bit values that add has just grown to
\* three entries with a char key and an i8 value.
C1_Witness ==
    /\ last.op = "add"
    /\ last.res = <<"Ok">>
    /\ last.K = "char"
    /\ last.V = "i8"
    /\ Len(entries) = 3

\* C2: append(key, value) returns Ok and the entries become the old entries
\* followed by (key, value) iff both reported signatures equal the declared
\* ones; otherwise it returns Err(IncorrectType) and nothing changes.
C2_AppendIffSignaturesMatch ==
    [][last'.op = "append" =>
        LET key == last'.key
            value == last'.value
            matches == /\ Value_value_signature(key) = key_signature
                       /\ Value_value_signature(value) = value_signature
        IN /\ key_signature' = key_signature
           /\ value_signature' = value_signature
           /\ matches =>
                /\ last'.res = <<"Ok">>
                /\ entries' = Append(entries, DictEntry(key, value))
           /\ ~matches =>
                /\ last'.res = Err
                /\ entries' = entries]_vars

\* A successful append onto a dictionary that already held an entry.
C2_Witness ==
    /\ last.op = "append"
    /\ last.res = <<"Ok">>
    /\ Len(entries) = 2
    /\ entries[2] = DictEntry(last.key, last.value)

\* C3: add::<K, V>(key, value) returns Ok and appends the wrapped pair iff
\* the registry signatures of K and V equal the declared ones; otherwise it
\* returns Err(IncorrectType) and nothing changes.  On an empty dictionary
\* with key signature "i", adding a string key with a u32 value fails.
C3_AddIffRegistrySignaturesMatch ==
    [][last'.op = "add" =>
        LET K == last'.K
            V == last'.V
            matches == /\ SIGNATURE_STR(K) = key_signature
                       /\ SIGNATURE_STR(V) = value_signature
        IN /\ key_signature' = key_signature
           /\ value_signature' = value_signature
           /\ matches =>
                /\ last'.res = <<"Ok">>
                /\ Len(entries') = Len(entries) + 1
                /\ SubSeq(entries', 1, Len(entries)) = entries
                /\ entries'[Len(entries')] =
                     DictEntry(Value_new(K, last'.key),
                               Value_new(V, last'.value))
           /\ ~matches =>
                /\ last'.res = Err
                /\ entries' = entries
           /\ (key_signature = "i" /\ K = "&str" /\ V = "u32"
                 /\ entries = <<>>) =>
                /\ last'.res = Err
                /\ entries' = <<>>]_vars

\* add("a", 1u32) has just failed on an empty dictionary of i32 keys.
C3_Witness ==
    /\ last.op = "add"
    /\ last.K = "&str"
    /\ last.V = "u32"
    /\ key_signature = "i"
    /\ value_signature = "u"
    /\ last.res = Err
    /\ entries = <<>>

\* C4 as stated: after append(k, v) succeeds, get for k returns v, whatever
\* the dictionary held before; after append fails the entry count is
\* unchanged.
C4_GetReturnsAppendedValue ==
    [][last'.op = "append" =>
        /\ last'.res = <<"Ok">> =>
             Dict_get(entries', RefTypeOf(last'.key.kind),
                      RefTypeOf(last'.value.kind), last'.key.v)
               = <<"Ok", "Some", last'.value.v>>
        /\ last'.res = Err => Len(entries') = Len(entries)]_vars

\* C4 amended: after append(k, v) succeeds, get for k returns v when no
\* earlier entry has a key equal to k, and otherwise the value of the first
\* such earlier entry; after append fails the entry count is unchanged.
C4_GetReturnsFirstValueForKey ==
    [][last'.op = "append" =>
        LET earlier == {i \in 1..Len(entries) :
                           entries[i].key.v = last'.key.v}
            got == Dict_get(entries', RefTypeOf(last'.key.kind),
                            RefTypeOf(last'.value.kind), last'.key.v)
        IN /\ (last'.res = <<"Ok">> /\ earlier = {}) =>
                got = <<"Ok", "Some", last'.value.v>>
           /\ (last'.res = <<"Ok">> /\ earlier # {}) =>
                got = <<"Ok", "Some", entries[Min(earlier)].value.v>>
           /\ last'.res = Err => Len(entries') = Len(entries)]_vars

\* append("b", 2) has just succeeded after ("a", 1), and get("b") gives 2.
C4_Witness ==
    /\ last.op = "append"
    /\ last.res = <<"Ok">>
    /\ key_signature = "s"
    /\ value_signature = "u"
    /\ Len(entries) = 2
    /\ entries[1].key.v = "a"
    /\ entries[2].key.v = "b"
    /\ Dict_get(entries, "&str", "u32", "b") = <<"Ok", "Some", 2>>

\* C5: when every stored key downcasts to K and every stored value to V,
\* get(key) returns the value of the first entry whose key equals key, and
\* Ok(None) exactly when no entry has that key; get changes nothing.
C5_GetFirstMatch ==
    [][last'.op = "get" =>
        LET K == last'.K
            V == last'.V
            hits == {i \in 1..Len(entries) :
                        downcast_ref(K, entries[i].key) = <<last'.key>>}
        IN /\ entries' = entries
           /\ key_signature' = key_signature
           /\ value_signature' = value_signature
           /\ (\A i \in 1..Len(entries) :
                   /\ downcast_ref(K, entries[i].key) # <<>>
                   /\ downcast_ref(V, entries[i].value) # <<>>) =>
                /\ hits # {} =>
                     last'.res =
                       <<"Ok", "Some", entries[Min(hits)].value.v>>
                /\ hits = {} <=> last'.res = <<"Ok", "None">>]_vars

\* get("a") on [("a", 1), ("b", 2), ("a", 3)] has returned 1.
C5_Witness ==
    /\ last.op = "get"
    /\ last.K = "&str"
    /\ last.V = "u32"
    /\ last.key = "a"
    /\ key_signature = "s"
    /\ value_signature = "u"
    /\ Len(entries) = 3
    /\ entries[1] = DictEntry(Value_new("&str", "a"), Value_new("u32", 1))
    /\ entries[2] = DictEntry(Value_new("&str", "b"), Value_new("u32", 2))
    /\ entries[3] = DictEntry(Value_new("&str", "a"), Value_new("u32", 3))
    /\ last.res = <<"Ok", "Some", 1>>

\* C6 as stated: get fails with Err(IncorrectType) when some stored key
\* does not downcast to K, wherever that entry sits, and when the first
\* entry whose key matches holds a value that does not downcast to V.
C6_GetFailsOnBadDowncast ==
    last.op = "get" =>
        LET K == last.K
            V == last.V
            badKeys == {i \in 1..Len(entries) :
                           downcast_ref(K, entries[i].key) = <<>>}
            hits == {i \in 1..Len(entries) :
                        downcast_ref(K, entries[i].key) = <<last.key>>}
        IN /\ badKeys # {} => last.res = Err
           /\ (badKeys = {} /\ hits # {}
                 /\ downcast_ref(V, entries[Min(hits)].value) = <<>>) =>
                last.res = Err

\* C6 amended: get fails with Err(IncorrectType) when a stored key that does
\* not downcast to K sits before the first entry whose key matches, or
\* anywhere when no key matches; a key after the first matching entry is
\* not looked at and does not fail the call; and when the first matching
\* entry is reached and its value does not downcast to V, get returns Err.
C6_GetFailsOnScannedBadDowncast ==
    last.op = "get" =>
        LET K == last.K
            V == last.V
            badKeys == {i \in 1..Len(entries) :
                           downcast_ref(K, entries[i].key) = <<>>}
            hits == {i \in 1..Len(entries) :
                        downcast_ref(K, entries[i].key) = <<last.key>>}
            scanned == IF hits = {} THEN 1..Len(entries) ELSE 1..Min(hits)
            reached == hits # {} /\ badKeys \cap scanned = {}
        IN /\ badKeys \cap scanned # {} => last.res = Err
           /\ (reached /\ downcast_ref(V, entries[Min(hits)].value) = <<>>)
                => last.res = Err
           /\ (reached /\ downcast_ref(V, entries[Min(hits)].value) # <<>>)
                => last.res =
                     <<"Ok", "Some",
                       downcast_ref(V, entries[Min(hits)].value)[1]>>

\* get::<u32, _>(1) has just failed on variant-typed keys holding an i16 1
\* and then a u32 1: the key that does not downcast comes before the match.
C6_Witness ==
    /\ last.op = "get"
    /\ last.K = "u32"
    /\ last.key = 1
    /\ key_signature = "v"
    /\ Len(entries) = 2
    /\ entries[1].key = [kind |-> "Value", v |-> [kind |-> "I16", v |-> 1]]
    /\ entries[2].key = [kind |-> "Value", v |-> [kind |-> "U32", v |-> 1]]
    /\ last.res = Err

\* C7: signature() is "a{" + ks + vs + "}" for the signatures the
\* dictionary was created with, whatever its entries; key_signature and
\* value_signature never change.
C7_SignatureIsFixed ==
    /\ key_signature = created.ks
    /\ value_signature = created.vs
    /\ last.op = "signature" =>
         last.res = "a{" \o created.ks \o created.vs \o "}"

\* signature() has returned "a{su}" on a dictionary holding three entries.
C7_Witness ==
    /\ last.op = "signature"
    /\ Len(entries) = 3
    /\ created = [ks |-> "s", vs |-> "u"]
    /\ last.res = "a{su}"

\* C8: a dictionary made by From<HashMap<K, V>> has one entry per pair of
\* the map and the registry signatures of K and V, and converting it
\* straight back to HashMap<K, V> succeeds with a map equal to the original,
\* whatever the order the map was iterated in.
C8_RoundTrip ==
    /\ last.op = "from" =>
         /\ Len(entries) = Cardinality(DOMAIN last.m)
         /\ key_signature = SIGNATURE_STR(last.K)
         /\ value_signature = SIGNATURE_STR(last.V)
         /\ \A k \in DOMAIN last.m :
              Cardinality({i \in 1..Len(entries) :
                  /\ entries[i].key = Value_new(last.K, k)
                  /\ entries[i].value = Value_new(last.V, last.m[k])}) = 1
    /\ (last.op = "try_from" /\ Len(last.src) = 1
          /\ last.K = last.src[1].K /\ last.V = last.src[1].V) =>
         last.res = <<"Ok", last.src[1].m>>

\* A map of two char keys has gone to a dictionary and come back equal.
C8_Witness ==
    /\ last.op = "try_from"
    /\ Len(last.src) = 1
    /\ last.K = "char"
    /\ last.V = "u32"
    /\ last.src[1].K = "char"
    /\ last.src[1].V = "u32"
    /\ Cardinality(DOMAIN last.src[1].m) = 2
    /\ last.res = <<"Ok", last.src[1].m>>

DescriptorTable(T) ==
    CASE T = "u8" -> <<"y", 1>>
      [] T = "bool" -> <<"b", 4>>
      [] T = "i16" -> <<"n", 2>>
      [] T = "u16" -> <<"q", 2>>
      [] T = "i32" -> <<"i", 4>>
      [] T = "u32" -> <<"u", 4>>
      [] T = "i64" -> <<"x", 8>>
      [] T = "u64" -> <<"t", 8>>
      [] T = "f64" -> <<"d", 8>>
      [] T \in {"&str", "String"} -> <<"s", 4>>
      [] T = "i8" -> <<"n", 2>>
      [] T = "f32" -> <<"d", 8>>
      [] T = "char" -> <<"s", 4>>

\* C10: for every registry type, SIGNATURE_STR is the one-character string
\* of SIGNATURE_CHAR, ALIGNMENT is 1, 2, 4 or 8, (tag, alignment) is the
\* table's, and i8, f32 and char have the descriptors of i16, f64 and &str.
C10_RegistryTable ==
    /\ last.op = "basic" =>
         /\ Len(last.str) = 1
         /\ last.ch \in DOMAIN Chr
         /\ last.str = Chr[last.ch]
         /\ last.align \in {1, 2, 4, 8}
         /\ <<last.str, last.align>> = DescriptorTable(last.T)
         /\ last.sig = last.str
    /\ \A p \in {<<"i8", "i16">>, <<"f32", "f64">>, <<"char", "&str">>} :
         /\ SIGNATURE_CHAR(p[1]) = SIGNATURE_CHAR(p[2])
         /\ SIGNATURE_STR(p[1]) = SIGNATURE_STR(p[2])
         /\ ALIGNMENT(p[1]) = ALIGNMENT(p[2])

\* The descriptor of char has been read: that of &str.
C10_Witness ==
    /\ last.op = "basic"
    /\ last.T = "char"
    /\ last.ch = 115
    /\ last.str = "s"
    /\ last.align = 4

====
